---- MODULE Spec2Model ----
(***************************************************************************)
(* FlipFile front-end script (src/app.js): the upload handler with its     *)
(* progress timer, the sample-file and tool-modal handlers, and the daily  *)
(* usage gate run on DOMContentLoaded.                                     *)
(*                                                                         *)
(* Each handleFileUpload call is one entry of `calls`; its position in the *)
(* async function is the entry's pc:                                       *)
(*   "rejected"  returned at line 80 or 85                                 *)
(*   "pending"   suspended at the await of fetch, line 116                 *)
(*   "parsing"   suspended at the await of response.json(), line 129       *)
(*   "waiting"   returned with the 1000 ms timer of line 135 armed         *)
(*   "succeeded" the timer callback of lines 135-139 ran to its end        *)
(*   "crashed"   the timer callback threw at line 136 (result is null)     *)
(*   "failed"    the catch block of lines 141-145 ran                      *)
(* Strings that the code only compares or copies are TLA+ strings; the     *)
(* stored tasksDone, which the code parses, is a sequence of characters.   *)
(* A call's `downloads` are the anchors downloadFile clicked for it, and   *)
(* `requests` the fetches of /upload in the order they were issued.        *)
(* The modal's Select File button only opens the file picker; the file    *)
(* chosen there arrives as the input's change event.                       *)
(* Not modelled: the drag-over class, the search box, and the 3000 ms      *)
(* removal of a notification element (notifications is the log of the      *)
(* elements showNotification has appended).                                *)
(***************************************************************************)
EXTENDS Integers, Sequences, FiniteSets, TLC

VARIABLES hostname, lastVisit, tasksDone, load, dropZone, calls, requests,
          notifications, modals, samples

vars == <<hostname, lastVisit, tasksDone, load, dropZone, calls, requests,
          notifications, modals, samples>>

(* ------------------------------ bounds -------------------------------- *)

\* handleFileUpload calls in one page life
MaxCalls == 2
\* the interval callback is followed while progress stays within this (the
\* cap of 90 lies beyond it)
MaxProgress == 5
\* tool modals open at once
MaxModals == 1

(* --------------------------- program constants ------------------------ *)

MAX_FILE_SIZE == 50 * 1024 * 1024
PROGRESS_STEP == 5
PROGRESS_CAP == 90
TASK_LIMIT == 3

\* style.width of the freshly created progress bar (no width set)
NoWidth == -1

Hostnames == {"localhost", "flipfile.online"}

API_BASE_URL ==
    IF hostname = "localhost" THEN "http://localhost:8000"
                              ELSE "https://api.flipfile.online"

\* `${API_BASE_URL}/upload`
UploadUrl == <<API_BASE_URL, "/upload">>

\* dropZone.innerHTML: the markup of resetDropZone (which the page starts
\* with), or the progress container of call i
InitialContent == [content |-> "drop-content", call |-> 0]
ProgressContainer(i) == [content |-> "progress-container", call |-> i]

(* ------------------------------ inputs -------------------------------- *)

NoFile == [present |-> FALSE, name |-> "", size |-> 0]
File(n, s) == [present |-> TRUE, name |-> n, size |-> s]

\* what a drop or a file-input change can deliver
UserFiles ==
    { File("sample.pdf", 13264),
      File("", MAX_FILE_SIZE),
      File("big.pdf", MAX_FILE_SIZE + 1) }

\* sizes of the blob the sample fetch can resolve with
SampleBlobSizes == {13264}

\* file lists of a drop or change event
FileLists == {<<>>} \cup {<<f>> : f \in UserFiles}
                    \cup {<<File("", MAX_FILE_SIZE), File("big.pdf", MAX_FILE_SIZE + 1)>>}

Statuses == {200, 500}

Undefined == "undefined"
\* values response.json() can resolve with
JsonNull == [json |-> "null", download_url |-> Undefined]
JsonObject(u) == [json |-> "object", download_url |-> u]
Bodies == {JsonObject("/files/out.pdf"), JsonObject(Undefined), JsonNull}

Tools == {"merge", "rotate"}

Dates == {"Wed Nov 04 2026", "Thu Nov 05 2026"}

\* localStorage.getItem: null, or the stored string
Absent(empty) == [has |-> FALSE, val |-> empty]
Item(v) == [has |-> TRUE, val |-> v]

\* the DOMContentLoaded listener's locals once it has run: `today` and the
\* `lastVisit` it read
NotLoaded == [has |-> FALSE, today |-> "", lastVisit |-> Absent("")]
Loaded(today, read) == [has |-> TRUE, today |-> today, lastVisit |-> read]

\* C5's mutant: the count of the earlier date is carried over
ResetCount_Stale == IF tasksDone.has THEN tasksDone.val ELSE <<"0">>

\* the '0' of localStorage.setItem('tasksDone', '0')
ResetCount == <<"0">>

(* --------------------------- pure functions --------------------------- *)

Min(a, b) == IF a < b THEN a ELSE b

IsDigit(c) == c \in {"0", "1", "2", "3", "4", "5", "6", "7", "8", "9"}

DigitVal(c) ==
    CASE c = "0" -> 0 [] c = "1" -> 1 [] c = "2" -> 2 [] c = "3" -> 3
      [] c = "4" -> 4 [] c = "5" -> 5 [] c = "6" -> 6 [] c = "7" -> 7
      [] c = "8" -> 8 [] c = "9" -> 9

RECURSIVE SkipSpace(_)
SkipSpace(s) == IF s # <<>> /\ Head(s) = " " THEN SkipSpace(Tail(s)) ELSE s

RECURSIVE DigitPrefix(_)
DigitPrefix(s) ==
    IF s # <<>> /\ IsDigit(Head(s)) THEN <<Head(s)>> \o DigitPrefix(Tail(s))
                                    ELSE <<>>

RECURSIVE DecimalValue(_)
DecimalValue(d) ==
    IF d = <<>> THEN 0
    ELSE 10 * DecimalValue(SubSeq(d, 1, Len(d) - 1)) + DigitVal(d[Len(d)])

NaN == [nan |-> TRUE, val |-> 0]
Number(n) == [nan |-> FALSE, val |-> n]

\* parseInt(string): leading white space, an optional sign, then the longest
\* run of decimal digits; NaN when there is none
ParseInt(s) ==
    LET t == SkipSpace(s)
        signed == t # <<>> /\ Head(t) \in {"-", "+"}
        body == IF signed THEN Tail(t) ELSE t
        d == DigitPrefix(body)
    IN  IF d = <<>> THEN NaN
        ELSE IF signed /\ Head(t) = "-" THEN Number(0 - DecimalValue(d))
        ELSE Number(DecimalValue(d))

\* C6's mutant: the comparison written as `>`
GreaterEq_Strict(a, n) == ~a.nan /\ a.val > n

\* a >= b of JavaScript numbers: false when a is NaN
GreaterEq(a, n) == ~a.nan /\ a.val >= n

\* localStorage.getItem('tasksDone') || '0'
OrDefault(item) == IF ~item.has \/ item.val = <<>> THEN <<"0">> ELSE item.val

\* response.ok
ResponseOk(status) == status >= 200 /\ status <= 299

\* the toolNames table of getToolName
ToolNames ==
    [t \in {"compress", "convert-pdf-to-word", "merge", "split",
            "convert-word-to-pdf", "convert-excel-to-pdf"} |->
        CASE t = "compress" -> "Compress PDF"
          [] t = "convert-pdf-to-word" -> "Convert PDF to Word"
          [] t = "merge" -> "Merge PDFs"
          [] t = "split" -> "Split PDF"
          [] t = "convert-word-to-pdf" -> "Convert Word to PDF"
          [] t = "convert-excel-to-pdf" -> "Convert Excel to PDF"]

GetToolName(tool) == IF tool \in DOMAIN ToolNames THEN ToolNames[tool] ELSE tool

\* the element showToolModal(tool) appends: its argument and its heading
ToolModal(tool) == [tool |-> tool, title |-> GetToolName(tool)]

(* ------------------------------- helpers ------------------------------ *)

Notification(src, message, type) == [src |-> src, message |-> message, type |-> type]

\* showNotification(message, type) called by `src`: the number of the
\* handleFileUpload call, or 0 for the page's own listeners
ShowNotification(src, message, type) ==
    notifications' = notifications \cup {Notification(src, message, type)}

\* resetDropZone()
ResetDropZone == dropZone' = InitialContent

\* C3's mutant: the name is passed on without the fallback
SuggestedName_Raw(filename) == filename

\* a.download = filename || 'download'
SuggestedName(filename) == IF filename = "" THEN "download" ELSE filename

\* downloadFile(url, filename): the anchor it creates and clicks
DownloadFile(url, filename) == [href |-> url, download |-> SuggestedName(filename)]

\* C1's mutant: the comparison written as `>=`
TooLarge_AtOrOver(file) == file.size >= MAX_FILE_SIZE

\* C8's mutant: the handler also refuses once the daily limit is reached
TooLarge_OrOverLimit(file) ==
    \/ file.size > MAX_FILE_SIZE
    \/ GreaterEq(ParseInt(OrDefault(tasksDone)), TASK_LIMIT)

\* file.size > 50 * 1024 * 1024
TooLarge(file) == file.size > MAX_FILE_SIZE

\* C2's mutant: the tool of the modal opened last is sent
ToolField_Selected ==
    IF modals = <<>> THEN "compress" ELSE modals[Len(modals)].tool

\* formData.append('tool', 'compress')
ToolField == "compress"

\* the FormData of lines 103-105 and the fetch of lines 116-119
UploadRequest(i, file) ==
    [call |-> i, url |-> UploadUrl, method |-> "POST",
     body |-> [file |-> file, tool |-> ToolField]]

CallRecord(file, pc) ==
    [file |-> file, pc |-> pc, progress |-> 0, interval |-> FALSE,
     width |-> NoWidth, text |-> "", result |-> JsonNull, downloads |-> <<>>]

storageVars == <<lastVisit, tasksDone, load>>

(* ------------------------------- actions ------------------------------ *)

\* the page as the script leaves it, before any listener has run
FreshPage ==
    /\ hostname \in Hostnames
    /\ load = NotLoaded
    /\ dropZone = InitialContent
    /\ calls = <<>>
    /\ requests = <<>>
    /\ notifications = {}
    /\ modals = <<>>
    /\ samples = 0

\* localStorage is what an earlier visit left: nothing, or a date with a count
Init ==
    /\ FreshPage
    /\ \E stored \in { <<Absent(""), Absent(<<>>)>>,
                        <<Item("Thu Nov 05 2026"), Item(<<"0">>)>>,
                        <<Item("Thu Nov 05 2026"), Item(<<"3">>)>> } :
          /\ lastVisit = stored[1]
          /\ tasksDone = stored[2]

\* handleFileUpload(file), up to its first await (or its return)
HandleFileUpload(file) ==
    LET i == Len(calls) + 1 IN
    /\ Len(calls) < MaxCalls
    /\ UNCHANGED <<hostname, storageVars, modals>>
    /\ IF ~file.present THEN
            /\ ShowNotification(i, "No file selected", "error")
            /\ calls' = Append(calls, CallRecord(file, "rejected"))
            /\ UNCHANGED <<dropZone, requests>>
       ELSE IF TooLarge(file) THEN
            /\ ShowNotification(i, "File size exceeds 50MB limit", "error")
            /\ calls' = Append(calls, CallRecord(file, "rejected"))
            /\ UNCHANGED <<dropZone, requests>>
       ELSE
            /\ dropZone' = ProgressContainer(i)
            /\ calls' = Append(calls,
                 [CallRecord(file, "pending") EXCEPT
                     !.interval = TRUE, !.text = "Uploading..."])
            /\ requests' = Append(requests, UploadRequest(i, file))
            /\ UNCHANGED notifications

\* the drop listener
Drop(files) ==
    IF Len(files) > 0 THEN HandleFileUpload(files[1]) /\ UNCHANGED samples
                      ELSE UNCHANGED vars

\* the change listener of the file input
FileInputChange(files) ==
    IF Len(files) > 0 THEN HandleFileUpload(files[1]) /\ UNCHANGED samples
                      ELSE UNCHANGED vars

\* handleFileUpload called with no argument
CallWithoutFile == HandleFileUpload(NoFile) /\ UNCHANGED samples

\* the sample button's listener, up to its await of fetch
SampleClick ==
    /\ Len(calls) + samples < MaxCalls
    /\ samples' = samples + 1
    /\ UNCHANGED <<hostname, storageVars, dropZone, calls, requests, notifications, modals>>

\* the sample fetch and response.blob() resolved
SampleLoaded(blobSize) ==
    /\ samples > 0
    /\ samples' = samples - 1
    /\ HandleFileUpload(File("sample.pdf", blobSize))

\* the sample fetch or response.blob() rejected
SampleFailed ==
    /\ samples > 0
    /\ samples' = samples - 1
    /\ ShowNotification(0, "Failed to load sample file", "error")
    /\ UNCHANGED <<hostname, storageVars, dropZone, calls, requests, modals>>

\* C4's mutant: the catch block without resetDropZone()
CatchBlock_NoReset(i, c) ==
    /\ UNCHANGED dropZone
    /\ ShowNotification(i, "Upload failed. Please try again.", "error")
    /\ calls' = [calls EXCEPT ![i] = [c EXCEPT !.pc = "failed"]]

\* the catch block of handleFileUpload
CatchBlock(i, c) ==
    /\ ResetDropZone
    /\ ShowNotification(i, "Upload failed. Please try again.", "error")
    /\ calls' = [calls EXCEPT ![i] = [c EXCEPT !.pc = "failed"]]

\* the interval callback of call i
IntervalTick(i) ==
    /\ i \in DOMAIN calls
    /\ calls[i].interval
    /\ calls[i].progress + PROGRESS_STEP <= MaxProgress
    /\ LET p == calls[i].progress + PROGRESS_STEP IN
       calls' = [calls EXCEPT ![i].progress = p,
                              ![i].width = Min(p, PROGRESS_CAP)]
    /\ UNCHANGED <<hostname, storageVars, dropZone, requests, notifications, modals, samples>>

\* fetch resolved with a response: lines 121-127, up to the await of json()
FetchResolve(i, status) ==
    /\ i \in DOMAIN calls
    /\ calls[i].pc = "pending"
    /\ LET c == [calls[i] EXCEPT !.interval = FALSE, !.width = 100,
                                 !.text = "Processing..."]
       IN  IF ~ResponseOk(status)
           THEN CatchBlock(i, c)
           ELSE /\ calls' = [calls EXCEPT ![i] = [c EXCEPT !.pc = "parsing"]]
                /\ UNCHANGED <<dropZone, notifications>>
    /\ UNCHANGED <<hostname, storageVars, requests, modals, samples>>

\* fetch rejected (transport error): control passes to the catch block
FetchReject(i) ==
    /\ i \in DOMAIN calls
    /\ calls[i].pc = "pending"
    /\ CatchBlock(i, calls[i])
    /\ UNCHANGED <<hostname, storageVars, requests, modals, samples>>

\* response.json() resolved: lines 129-139, arming the timer
JsonResolve(i, body) ==
    /\ i \in DOMAIN calls
    /\ calls[i].pc = "parsing"
    /\ calls' = [calls EXCEPT ![i].result = body,
                              ![i].text = "Complete! Downloading...",
                              ![i].pc = "waiting"]
    /\ UNCHANGED <<hostname, storageVars, dropZone, requests, notifications, modals, samples>>

\* response.json() rejected (the body is not JSON)
JsonReject(i) ==
    /\ i \in DOMAIN calls
    /\ calls[i].pc = "parsing"
    /\ CatchBlock(i, calls[i])
    /\ UNCHANGED <<hostname, storageVars, requests, modals, samples>>

\* the timer callback of lines 135-139
DownloadTimer(i) ==
    /\ i \in DOMAIN calls
    /\ calls[i].pc = "waiting"
    /\ IF calls[i].result.json = "null"
       THEN \* result.download_url throws a TypeError; nothing catches it
            /\ calls' = [calls EXCEPT ![i].pc = "crashed"]
            /\ UNCHANGED <<dropZone, notifications>>
       ELSE /\ calls' = [calls EXCEPT
                 ![i].downloads = Append(@,
                     DownloadFile(calls[i].result.download_url, calls[i].file.name)),
                 ![i].pc = "succeeded"]
            /\ ResetDropZone
            /\ ShowNotification(i, "File processed successfully!", "success")
    /\ UNCHANGED <<hostname, storageVars, requests, modals, samples>>

\* a tool button's listener: showToolModal(button.dataset.tool)
ToolButtonClick(tool) ==
    /\ Len(modals) < MaxModals
    /\ modals' = Append(modals, ToolModal(tool))
    /\ UNCHANGED <<hostname, storageVars, dropZone, calls, requests, notifications, samples>>

\* the Cancel button of the k-th modal
ModalCancel(k) ==
    /\ k \in DOMAIN modals
    /\ modals' = [j \in 1..(Len(modals) - 1) |->
                     IF j < k THEN modals[j] ELSE modals[j + 1]]
    /\ UNCHANGED <<hostname, storageVars, dropZone, calls, requests, notifications, samples>>

\* the DOMContentLoaded listener
DOMContentLoaded(today) ==
    /\ ~load.has
    /\ load' = Loaded(today, lastVisit)
    /\ IF lastVisit = Item(today) THEN
            /\ IF GreaterEq(ParseInt(OrDefault(tasksDone)), TASK_LIMIT)
               THEN ShowNotification(0,
                        "Daily limit reached (3 tasks). Please try again tomorrow.",
                        "warning")
               ELSE UNCHANGED notifications
            /\ UNCHANGED <<lastVisit, tasksDone>>
       ELSE
            /\ lastVisit' = Item(today)
            /\ tasksDone' = Item(ResetCount)
            /\ UNCHANGED notifications
    /\ UNCHANGED <<hostname, dropZone, calls, requests, modals, samples>>

Next ==
    \/ \E files \in FileLists : Drop(files)
    \/ \E files \in FileLists : FileInputChange(files)
    \/ CallWithoutFile
    \/ SampleClick
    \/ \E s \in SampleBlobSizes : SampleLoaded(s)
    \/ SampleFailed
    \/ \E i \in 1..MaxCalls : IntervalTick(i)
    \/ \E i \in 1..MaxCalls, st \in Statuses : FetchResolve(i, st)
    \/ \E i \in 1..MaxCalls : FetchReject(i)
    \/ \E i \in 1..MaxCalls, b \in Bodies : JsonResolve(i, b)
    \/ \E i \in 1..MaxCalls : JsonReject(i)
    \/ \E i \in 1..MaxCalls : DownloadTimer(i)
    \/ \E t \in Tools : ToolButtonClick(t)
    \/ \E k \in 1..MaxModals : ModalCancel(k)
    \/ \E d \in Dates : DOMContentLoaded(d)

Spec == Init /\ [][Next]_vars

\* The upload handlers alone, on a first visit.
InitUpload ==
    /\ FreshPage
    /\ lastVisit = Absent("")
    /\ tasksDone = Absent(<<>>)

NextUpload ==
    \/ \E files \in FileLists : Drop(files)
    \/ \E files \in FileLists : FileInputChange(files)
    \/ CallWithoutFile
    \/ SampleClick
    \/ \E s \in SampleBlobSizes : SampleLoaded(s)
    \/ SampleFailed
    \/ \E i \in 1..MaxCalls : IntervalTick(i)
    \/ \E i \in 1..MaxCalls, st \in Statuses : FetchResolve(i, st)
    \/ \E i \in 1..MaxCalls : FetchReject(i)
    \/ \E i \in 1..MaxCalls, b \in Bodies : JsonResolve(i, b)
    \/ \E i \in 1..MaxCalls : JsonReject(i)
    \/ \E i \in 1..MaxCalls : DownloadTimer(i)

SpecUpload == InitUpload /\ [][NextUpload]_vars

\* The upload handlers under the scheduling the browser provides: a pending
\* request settles, a pending body parse settles, an armed timer fires.
Settle(i) == (\E st \in Statuses : FetchResolve(i, st)) \/ FetchReject(i)
JsonSettle(i) == (\E b \in Bodies : JsonResolve(i, b)) \/ JsonReject(i)

SpecLive ==
    /\ InitUpload
    /\ [][NextUpload]_vars
    /\ \A i \in 1..MaxCalls :
          WF_vars(Settle(i)) /\ WF_vars(JsonSettle(i)) /\ WF_vars(DownloadTimer(i))

(* --------------------------- the usage gate --------------------------- *)

\* largest count tried as a stored tasksDone
MaxCount == 12

RECURSIVE Decimal(_)
\* String(n) for n >= 0
Decimal(n) ==
    LET digit == <<"0", "1", "2", "3", "4", "5", "6", "7", "8", "9">>[(n % 10) + 1]
    IN  IF n < 10 THEN <<digit>> ELSE Decimal(n \div 10) \o <<digit>>

\* stored values that are no stringified count
OddStrings ==
    { <<>>, <<"x">>, <<"3", "x">>, <<"-", "5">>, <<" ", "4">>, <<"+", "3">>, <<"0", "7">> }

\* localStorage as anything may have left it
InitGate ==
    /\ FreshPage
    /\ lastVisit \in {Absent("")} \cup {Item(d) : d \in Dates}
    /\ tasksDone \in {Absent(<<>>)} \cup {Item(Decimal(n)) : n \in 0..MaxCount}
                       \cup {Item(x) : x \in OddStrings}

NextGate == \E d \in Dates : DOMContentLoaded(d)

SpecGate == InitGate /\ [][NextGate]_vars

(* ------------------------------- claims ------------------------------- *)

RequestsOf(i) == {k \in DOMAIN requests : requests[k].call = i}

Shown(i, message, type) == Notification(i, message, type) \in notifications

LimitWarning ==
    Shown(0, "Daily limit reached (3 tasks). Please try again tomorrow.", "warning")

UploadFailed(i) == Shown(i, "Upload failed. Please try again.", "error")

\* the load step of the DOMContentLoaded listener reading date d
LoadStep(d) == ~load.has /\ load'.has /\ load'.today = d

\* C1, as stated: every call with a present file of size >= 50 MiB (exactly
\* 50 MiB included) issues no request and shows an error notification.
C1_AtOrOverRejected ==
    \A i \in DOMAIN calls :
        (calls[i].file.present /\ calls[i].file.size >= 50 * 1024 * 1024)
            => /\ RequestsOf(i) = {}
               /\ \E n \in notifications : n.src = i /\ n.type = "error"

\* C1, amended: every call with a present file of size > 50 MiB issues no
\* request and shows an error notification; a file of exactly 50 MiB is
\* accepted and its request is issued.
C1_OverRejected ==
    \A i \in DOMAIN calls :
        /\ (calls[i].file.present /\ calls[i].file.size > 50 * 1024 * 1024)
              => /\ RequestsOf(i) = {}
                 /\ calls[i].pc = "rejected"
                 /\ Shown(i, "File size exceeds 50MB limit", "error")
        /\ (calls[i].file.present /\ calls[i].file.size = 50 * 1024 * 1024)
              => RequestsOf(i) # {}

\* a file one byte over the ceiling was refused
C1_Witness ==
    \E i \in DOMAIN calls :
        /\ calls[i].file.present
        /\ calls[i].file.size > 50 * 1024 * 1024
        /\ calls[i].pc = "rejected"

\* C2: every call with a present file under the ceiling has exactly one
\* request, in every state of its life: a POST to {API_BASE_URL}/upload with
\* that file in field 'file' and 'compress' in field 'tool', whatever tool
\* modals are or were open.
C2_OnePost ==
    \A i \in DOMAIN calls :
        (calls[i].file.present /\ calls[i].file.size < 50 * 1024 * 1024)
            => /\ Cardinality(RequestsOf(i)) = 1
               /\ \A k \in RequestsOf(i) :
                    /\ requests[k].method = "POST"
                    /\ requests[k].url =
                         <<IF hostname = "localhost" THEN "http://localhost:8000"
                                                     ELSE "https://api.flipfile.online",
                           "/upload">>
                    /\ requests[k].body.file = calls[i].file
                    /\ requests[k].body.tool = "compress"

\* a tool other than compress is chosen in an open modal and an accepted
\* upload has run to its end
C2_Witness ==
    /\ modals = <<[tool |-> "merge", title |-> "Merge PDFs"]>>
    /\ \E i \in DOMAIN calls :
          /\ calls[i].file.present
          /\ calls[i].file.size < 50 * 1024 * 1024
          /\ calls[i].pc \in {"succeeded", "failed"}
          /\ Cardinality(RequestsOf(i)) = 1

HoldsUrl(i) ==
    /\ calls[i].pc \in {"waiting", "succeeded", "crashed"}
    /\ calls[i].result.json = "object"
    /\ calls[i].result.download_url # Undefined

\* C3, as stated: after a success response whose body holds a download URL,
\* no download happens before the timer fires and exactly one once it has,
\* of that URL, named as the file passed to the call (the empty name too).
C3_NamedAsFile ==
    \A i \in DOMAIN calls :
        HoldsUrl(i) =>
            /\ calls[i].pc = "waiting" => calls[i].downloads = <<>>
            /\ calls[i].pc # "waiting" =>
                 calls[i].downloads =
                    <<[href |-> calls[i].result.download_url,
                       download |-> calls[i].file.name]>>

\* C3, amended: ... named as the file passed to the call, or 'download' when
\* that name is the empty string.
C3_NamedAsFileOrDefault ==
    \A i \in DOMAIN calls :
        /\ calls[i].pc \in {"rejected", "pending", "parsing"} => calls[i].downloads = <<>>
        /\ HoldsUrl(i) =>
            /\ calls[i].pc = "waiting" => calls[i].downloads = <<>>
            /\ calls[i].pc # "waiting" =>
                 calls[i].downloads =
                    <<[href |-> calls[i].result.download_url,
                       download |-> IF calls[i].file.name = "" THEN "download"
                                    ELSE calls[i].file.name]>>

\* two uploads succeeded and were downloaded: a file with the empty name
\* and a file with a name
C3_Witness ==
    \E i, j \in DOMAIN calls :
        /\ HoldsUrl(i) /\ calls[i].pc = "succeeded" /\ calls[i].file.name = ""
        /\ calls[i].downloads[1].download = "download"
        /\ HoldsUrl(j) /\ calls[j].pc = "succeeded"
        /\ calls[j].downloads[1].download = "sample.pdf"

\* C4: when an accepted upload fails (transport error, non-2xx status,
\* unparseable body) the step that fails it restores the drop zone; the
\* upload has shown its error notification, never has a download and never
\* has a second request.
C4_FailureHandled ==
    /\ [](\A i \in DOMAIN calls :
            calls[i].pc = "failed" =>
                /\ UploadFailed(i)
                /\ calls[i].downloads = <<>>
                /\ Cardinality(RequestsOf(i)) = 1)
    /\ [][\A i \in DOMAIN calls :
            (calls[i].pc # "failed" /\ calls'[i].pc = "failed")
                => dropZone' = [content |-> "drop-content", call |-> 0]]_vars

\* one upload failed on a transport error (its timer was never cleared) and
\* one after its response arrived; the drop zone is back to its content
C4_Witness ==
    /\ dropZone = InitialContent
    /\ \E i, j \in DOMAIN calls :
          /\ calls[i].pc = "failed" /\ calls[i].interval
          /\ calls[j].pc = "failed" /\ calls[j].width = 100

\* C5: a load that reads a lastVisit other than today's date (or none)
\* leaves lastVisit = today and tasksDone = '0' and shows no limit warning.
C5_NewDateResets ==
    [][\A d \in Dates :
          (LoadStep(d) /\ lastVisit # Item(d))
              => /\ lastVisit' = Item(d)
                 /\ tasksDone' = Item(<<"0">>)
                 /\ notifications' = notifications
                 /\ ~LimitWarning']_vars

\* a load read a stored date other than today's and reset both entries
C5_Witness ==
    /\ load.has
    /\ load.lastVisit.has
    /\ load.lastVisit # Item(load.today)
    /\ lastVisit = Item(load.today)
    /\ tasksDone = Item(<<"0">>)
    /\ ~LimitWarning

\* C6: a load that reads today's date as lastVisit shows the limit warning
\* iff the stored count is >= 3 (no stored count being 0), and leaves both
\* entries as they were.
C6_SameDateWarns ==
    [][\A d \in Dates :
          (LoadStep(d) /\ lastVisit = Item(d))
              => /\ UNCHANGED <<lastVisit, tasksDone>>
                 /\ ~tasksDone.has => ~LimitWarning'
                 /\ \A n \in 0..MaxCount :
                      tasksDone = Item(Decimal(n)) => (LimitWarning' <=> n >= 3)]_vars

\* a load read today's date with a stored count of 3 and warned
C6_Witness ==
    /\ load.has
    /\ load.lastVisit = Item(load.today)
    /\ tasksDone = Item(<<"3">>)
    /\ LimitWarning

\* C7: once the request of an upload has settled (resolved or rejected), no
\* tick of its progress timer changes progress or the bar's width; while it
\* is pending the width is at most 90.
C7_TimerCancelled ==
    /\ [](\A i \in DOMAIN calls : calls[i].pc = "pending" => calls[i].width <= 90)
    /\ [][\A i \in DOMAIN calls :
            calls[i].pc # "pending"
                => /\ calls'[i].progress = calls[i].progress
                   /\ calls'[i].width = calls[i].width]_vars

\* C8: an accepted file's request is issued whatever is stored; no upload
\* step changes lastVisit or tasksDone; the only value ever written to
\* tasksDone is '0'.
C8_GateApart ==
    /\ [](\A i \in DOMAIN calls :
            (calls[i].file.present /\ calls[i].file.size <= 50 * 1024 * 1024)
                => Cardinality(RequestsOf(i)) = 1)
    /\ [][(calls' # calls \/ requests' # requests \/ dropZone' # dropZone
              \/ samples' # samples)
            => UNCHANGED <<lastVisit, tasksDone>>]_vars
    /\ [][tasksDone' # tasksDone => tasksDone' = Item(<<"0">>)]_vars

\* the count stored for today is over the limit, the warning was shown, and
\* uploads still went out: one succeeded, one failed, storage as it was
C8_Witness ==
    /\ load.has
    /\ lastVisit = Item(load.today)
    /\ tasksDone = Item(<<"3">>)
    /\ LimitWarning
    /\ \E i, j \in DOMAIN calls :
          /\ calls[i].pc = "succeeded" /\ Cardinality(RequestsOf(i)) = 1
          /\ calls[j].pc = "failed" /\ Cardinality(RequestsOf(j)) = 1

\* C9: an accepted upload leads to the drop zone showing its initial
\* content again, and no upload both downloads and shows 'Upload failed'.
C9_Lifecycle ==
    /\ \A i \in 1..MaxCalls :
          (i \in DOMAIN calls /\ calls[i].pc = "pending") ~> (dropZone = InitialContent)
    /\ [](\A i \in DOMAIN calls : ~(calls[i].downloads # <<>> /\ UploadFailed(i)))

\* C10: the drop zone never shows its initial content while a request is
\* pending.
C10_NoResetUnderPending ==
    (\E i \in DOMAIN calls : calls[i].pc = "pending") => dropZone # InitialContent

====
